---- MODULE Spec2Model ----
(***************************************************************************)
(* Model of src/11/generators-template.py: a Unix pipeline                 *)
(*   grep ^import | sed 's/import //g' | sort | uniq -c | sort -nr         *)
(* rewritten as a chain of Python generators, with two drivers.            *)
(*                                                                         *)
(* Strings are sequences of character codes (ASCII), so that comparison,   *)
(* substring replacement and newline stripping are computed, not assumed.  *)
(***************************************************************************)
EXTENDS Integers, Sequences, FiniteSets, TLC

VARIABLES
    \* count_adjacent and the two drivers' reports, applied to one input
    lines_in, pairs, reportA, reportB, stage,
    \* str.replace as used by search_and_replace, applied to one input
    r_line, r_search, r_new, r_out, r_pc,
    \* the generator pipeline
    fs, pattern, driver_pc, lfp_pc, grep_pc, sar_pc, active, signal, val, exc,
    pathIdx, lineIdx, handles, opened, lfp_out, lfp_req, collected

countVars == <<lines_in, pairs, reportA, reportB, stage>>
replVars == <<r_line, r_search, r_new, r_out, r_pc>>
pipeVars == <<fs, pattern, driver_pc, lfp_pc, grep_pc, sar_pc, active, signal, val,
              exc, pathIdx, lineIdx, handles, opened, lfp_out, lfp_req, collected>>
vars == <<countVars, replVars, pipeVars>>

(***************************************************************************)
(* Bounds of the explored input space.                                     *)
(***************************************************************************)
MaxLen == 6
MaxStr == 3
MaxSearch == 2
MaxPaths == 2
MaxLines == 2

(***************************************************************************)
(* String literals used by the program and by the inputs.                  *)
(***************************************************************************)
NL == 10
s_empty == << >>
s_a == <<97>>
s_ab == <<97, 98>>
s_b == <<98>>
s_c == <<99>>
s_import_sp == <<105, 109, 112, 111, 114, 116, 32>>
s_re_import == <<94, 105, 109, 112, 111, 114, 116>>
s_re_bad == <<40, 105, 109, 112, 111, 114, 116>>
s_re_plain == <<105, 109, 112, 111, 114, 116>>
raw_import_os == <<105, 109, 112, 111, 114, 116, 32, 111, 115, 10>>
raw_comment == <<35, 105, 109, 112, 111, 114, 116, 32, 114, 101>>

SeqsUpTo(S, n) == UNION {[1..k -> S] : k \in 0..n}

(***************************************************************************)
(* Python's str comparison: lexicographic on code points, a proper prefix  *)
(* is smaller.                                                             *)
(***************************************************************************)
StrLT(a, b) ==
    \E k \in 0..Len(a) :
        /\ k <= Len(b)
        /\ \A i \in 1..k : a[i] = b[i]
        /\ \/ (k = Len(a) /\ k < Len(b))
           \/ (k < Len(a) /\ k < Len(b) /\ a[k+1] < b[k+1])

(* Python's tuple comparison on (count, element): first item, then second. *)
PairLT(p, q) == p[1] < q[1] \/ (p[1] = q[1] /\ StrLT(p[2], q[2]))

InsertAt(s, k, x) == SubSeq(s, 1, k) \o <<x>> \o SubSeq(s, k+1, Len(s))

(* A plausible slip: the list is not sorted before counting. *)
SortedStr_skipped(s) == s

(* sorted(lines): stable ascending sort of strings. *)
SortedStr(s) ==
    LET F[i \in 0..Len(s)] ==
            IF i = 0 THEN << >>
            ELSE LET t == F[i-1]
                     k == Cardinality({j \in 1..Len(t) : ~StrLT(s[i], t[j])})
                 IN  InsertAt(t, k, s[i])
    IN  F[Len(s)]

(* A plausible slip: sort by count only, leaving ties in incoming order. *)
SortedPairsReverse_countOnly(s) ==
    LET F[i \in 0..Len(s)] ==
            IF i = 0 THEN << >>
            ELSE LET t == F[i-1]
                     k == Cardinality({j \in 1..Len(t) : t[j][1] >= s[i][1]})
                 IN  InsertAt(t, k, s[i])
    IN  F[Len(s)]

(* sorted(count_and_names, reverse=True): stable descending sort of pairs. *)
SortedPairsReverse(s) ==
    LET F[i \in 0..Len(s)] ==
            IF i = 0 THEN << >>
            ELSE LET t == F[i-1]
                     k == Cardinality({j \in 1..Len(t) : ~PairLT(t[j], s[i])})
                 IN  InsertAt(t, k, s[i])
    IN  F[Len(s)]

(***************************************************************************)
(* count_adjacent: itertools.groupby keeps the current key and starts a    *)
(* new group whenever the next element differs from it; each group is      *)
(* yielded as (len(group), key).                                           *)
(***************************************************************************)
count_adjacent_noMerge(iterable) ==
    [i \in 1..Len(iterable) |-> <<1, iterable[i]>>]

count_adjacent_lenOff(iterable) ==
    LET F[i \in 0..Len(iterable)] ==
            IF i = 0 THEN << >>
            ELSE LET out == F[i-1]
                 IN  IF i > 1 /\ iterable[i] = iterable[i-1]
                     THEN [out EXCEPT ![Len(out)] = <<@[1] + 1, @[2]>>]
                     ELSE Append(out, <<0, iterable[i]>>)
    IN  F[Len(iterable)]

count_adjacent(iterable) ==
    LET F[i \in 0..Len(iterable)] ==
            IF i = 0 THEN << >>
            ELSE LET out == F[i-1]
                 IN  IF i > 1 /\ iterable[i] = iterable[i-1]
                     THEN [out EXCEPT ![Len(out)] = <<@[1] + 1, @[2]>>]
                     ELSE Append(out, <<1, iterable[i]>>)
    IN  F[Len(iterable)]

(***************************************************************************)
(* collections.Counter(lines): a tally kept in first-seen (insertion)      *)
(* order, as a sequence of <<name, count>> items.                          *)
(***************************************************************************)
Counter(iterable) ==
    LET F[i \in 0..Len(iterable)] ==
            IF i = 0 THEN << >>
            ELSE LET t == F[i-1]
                     x == iterable[i]
                 IN  IF \E j \in 1..Len(t) : t[j][1] = x
                     THEN [j \in 1..Len(t) |->
                              IF t[j][1] = x THEN <<x, t[j][2] + 1>> ELSE t[j]]
                     ELSE Append(t, <<x, 1>>)
    IN  F[Len(iterable)]

(* A plausible slip: ties ordered by name instead of by first occurrence. *)
most_common_byName(items) ==
    LET F[i \in 0..Len(items)] ==
            IF i = 0 THEN << >>
            ELSE LET t == F[i-1]
                     x == items[i]
                     k == Cardinality({j \in 1..Len(t) :
                              \/ t[j][2] > x[2]
                              \/ (t[j][2] = x[2] /\ ~StrLT(x[1], t[j][1]))})
                 IN  InsertAt(t, k, x)
    IN  F[Len(items)]

(* Counter.most_common(): sorted(items, key=count, reverse=True), stable. *)
most_common(items) ==
    LET F[i \in 0..Len(items)] ==
            IF i = 0 THEN << >>
            ELSE LET t == F[i-1]
                     k == Cardinality({j \in 1..Len(t) : t[j][2] >= items[i][2]})
                 IN  InsertAt(t, k, items[i])
    IN  F[Len(items)]

(* Lines 74-76: sort, count adjacent, sort descending. *)
DriverA(lines) == SortedPairsReverse(count_adjacent(SortedStr(lines)))

(* Lines 85-87: tally, most_common, printed as (count, name). *)
DriverB(lines) ==
    LET mc == most_common(Counter(lines))
    IN  [i \in 1..Len(mc) |-> <<mc[i][2], mc[i][1]>>]

(***************************************************************************)
(* str.replace(old, new): every non-overlapping occurrence, scanning from  *)
(* the left.  With old empty, new is inserted before every character and   *)
(* at the end.                                                             *)
(***************************************************************************)
Replace_emptyNoop(line, old, new) ==
    LET G[i \in 1..Len(line)+1] ==
            IF i > Len(line) THEN << >>
            ELSE IF /\ old # << >>
                    /\ i + Len(old) - 1 <= Len(line)
                    /\ SubSeq(line, i, i + Len(old) - 1) = old
                 THEN new \o G[i + Len(old)]
                 ELSE <<line[i]>> \o G[i+1]
    IN  G[1]

Replace(line, old, new) ==
    LET G[i \in 1..Len(line)+1] ==
            IF i > Len(line) THEN << >>
            ELSE IF /\ i + Len(old) - 1 <= Len(line)
                    /\ SubSeq(line, i, i + Len(old) - 1) = old
                 THEN new \o G[i + Len(old)]
                 ELSE <<line[i]>> \o G[i+1]
        H[i \in 1..Len(line)+1] ==
            IF i > Len(line) THEN new
            ELSE new \o <<line[i]>> \o H[i+1]
    IN  IF old = << >> THEN H[1] ELSE G[1]

(* line.rstrip('\n'): every trailing newline is removed. *)
rstrip_nl(line) ==
    LET n == Cardinality({k \in 1..Len(line) : \A i \in k..Len(line) : line[i] = NL})
    IN  SubSeq(line, 1, Len(line) - n)

(***************************************************************************)
(* re.compile / re.search for the patterns the model feeds to grep:        *)
(* literal text with an optional leading "^"; a "(" that is never closed   *)
(* is a syntax error.                                                      *)
(***************************************************************************)
re_compile(p) ==
    IF \E i \in 1..Len(p) : p[i] = 40 /\ \A j \in i+1..Len(p) : p[j] # 41
    THEN [ok |-> FALSE, anchored |-> FALSE, lit |-> << >>]
    ELSE IF Len(p) > 0 /\ p[1] = 94
         THEN [ok |-> TRUE, anchored |-> TRUE, lit |-> Tail(p)]
         ELSE [ok |-> TRUE, anchored |-> FALSE, lit |-> p]

MatchesAt(lit, line, i) ==
    i + Len(lit) - 1 <= Len(line) /\ SubSeq(line, i, i + Len(lit) - 1) = lit

re_search(c, line) ==
    IF c.anchored THEN MatchesAt(c.lit, line, 1)
    ELSE \E i \in 1..Len(line)+1 : MatchesAt(c.lit, line, i)

NoExc == [kind |-> "none", path |-> 0]

(***************************************************************************)
(* Idle values of the parts a specification does not exercise.             *)
(***************************************************************************)
CountIdle ==
    /\ lines_in = << >> /\ pairs = << >> /\ reportA = << >> /\ reportB = << >>
    /\ stage = "idle"

ReplIdle ==
    /\ r_line = << >> /\ r_search = << >> /\ r_new = << >> /\ r_out = << >>
    /\ r_pc = "idle"

PipeIdle ==
    /\ fs = << >> /\ pattern = << >> /\ driver_pc = "idle"
    /\ lfp_pc = "none" /\ grep_pc = "none" /\ sar_pc = "none"
    /\ active = "none" /\ signal = "none" /\ val = << >> /\ exc = NoExc
    /\ pathIdx = 0 /\ lineIdx = 0 /\ handles = {} /\ opened = << >>
    /\ lfp_out = << >> /\ lfp_req = 0 /\ collected = << >>

(***************************************************************************)
(* SpecCount: count_adjacent on an arbitrary input, then Driver A's and    *)
(* Driver B's tail (lines 74-78 and 85-87) on the same list of lines.      *)
(***************************************************************************)
Names == {s_a, s_ab, s_b, s_c}

InitCount ==
    /\ lines_in \in SeqsUpTo(Names, MaxLen)
    /\ pairs = << >> /\ reportA = << >> /\ reportB = << >>
    /\ stage = "input"
    /\ ReplIdle /\ PipeIdle

CountAdjacent ==
    /\ stage = "input"
    /\ pairs' = count_adjacent(lines_in)
    /\ stage' = "counted"
    /\ UNCHANGED <<lines_in, reportA, reportB, replVars, pipeVars>>

RunDriverA ==
    /\ stage = "counted"
    /\ reportA' = DriverA(lines_in)
    /\ stage' = "reportedA"
    /\ UNCHANGED <<lines_in, pairs, reportB, replVars, pipeVars>>

RunDriverB ==
    /\ stage = "reportedA"
    /\ reportB' = DriverB(lines_in)
    /\ stage' = "reportedB"
    /\ UNCHANGED <<lines_in, pairs, reportA, replVars, pipeVars>>

NextCount == CountAdjacent \/ RunDriverA \/ RunDriverB

SpecCount == InitCount /\ [][NextCount]_vars

Counted == stage \in {"counted", "reportedA", "reportedB"}
ReportedA == stage \in {"reportedA", "reportedB"}
ReportedB == stage = "reportedB"

Occurrences(x, s) == Cardinality({i \in 1..Len(s) : s[i] = x})

(* The input rebuilt from (count, element) pairs. *)
Expand(ps) ==
    LET F[i \in 0..Len(ps)] ==
            IF i = 0 THEN << >>
            ELSE F[i-1] \o [k \in 1..ps[i][1] |-> ps[i][2]]
    IN  F[Len(ps)]

(* Sum of the counts of the pairs whose element is in E. *)
SumCounts(ps, E) ==
    LET F[i \in 0..Len(ps)] ==
            IF i = 0 THEN 0
            ELSE F[i-1] + (IF ps[i][2] \in E THEN ps[i][1] ELSE 0)
    IN  F[Len(ps)]

RunStarts(s) == {i \in 1..Len(s) : i = 1 \/ s[i] # s[i-1]}

ExampleInput == <<s_a, s_a, s_a, s_b, s_c, s_c>>
ExampleOutput == << <<3, s_a>>, <<1, s_b>>, <<2, s_c>> >>

(* C1: count_adjacent yields one (count, element) pair per maximal run of  *)
(* consecutive equal elements, in order, with count the run's length: the  *)
(* pairs expand back to the input, every count is at least 1, neighbouring *)
(* pairs carry different elements, and the docstring's example holds.      *)
C1_OnePairPerRun ==
    Counted =>
        /\ Len(pairs) = Cardinality(RunStarts(lines_in))
        /\ Expand(pairs) = lines_in
        /\ \A i \in 1..Len(pairs) : pairs[i][1] >= 1
        /\ \A i \in 1..Len(pairs)-1 : pairs[i][2] # pairs[i+1][2]
        /\ (lines_in = ExampleInput => pairs = ExampleOutput)

C1_Witness == stage = "counted" /\ lines_in = ExampleInput /\ pairs = ExampleOutput

(* C2: the counts summed per element equal the element's number of         *)
(* occurrences in the input, and all counts sum to the input's length.     *)
C2_CountsAddUp ==
    Counted =>
        /\ \A x \in Names : SumCounts(pairs, {x}) = Occurrences(x, lines_in)
        /\ SumCounts(pairs, Names) = Len(lines_in)

C2_Witness ==
    /\ stage = "counted"
    /\ \E i, j \in 1..Len(pairs) : i + 1 < j /\ pairs[i][2] = pairs[j][2]

PairCount(p, report) == Cardinality({i \in 1..Len(report) : report[i] = p})

DescendingCounts(report) ==
    \A i \in 1..Len(report)-1 : report[i][1] >= report[i+1][1]

(* C3: Driver A and Driver B report the same multiset of (count, name)     *)
(* pairs: every distinct name once in each, with its total number of       *)
(* occurrences; the reports differ at most in the order of equal counts.   *)
C3_SameMultiset ==
    ReportedB =>
        /\ \A x \in Names :
             LET n == Occurrences(x, lines_in)
             IN  /\ PairCount(<<n, x>>, reportA) = (IF n > 0 THEN 1 ELSE 0)
                 /\ PairCount(<<n, x>>, reportB) = (IF n > 0 THEN 1 ELSE 0)
        /\ Len(reportA) = Len(reportB)
        /\ Len(reportA) = Cardinality({x \in Names : Occurrences(x, lines_in) > 0})
        /\ DescendingCounts(reportA) /\ DescendingCounts(reportB)

C3_Witness == ReportedB /\ Len(reportA) >= 3 /\ reportA # reportB

(* C4 as stated: Driver A's report is by count descending, equal counts    *)
(* ascending on the element text.                                          *)
C4_TiesAscending ==
    ReportedA =>
        \A i \in 1..Len(reportA)-1 :
            \/ reportA[i][1] > reportA[i+1][1]
            \/ /\ reportA[i][1] = reportA[i+1][1]
               /\ StrLT(reportA[i][2], reportA[i+1][2])

(* C4 amended: Driver A's report is by count descending, equal counts      *)
(* DESCENDING on the element text (the whole pair is sorted in reverse).   *)
C4_TiesDescending ==
    ReportedA =>
        \A i \in 1..Len(reportA)-1 :
            \/ reportA[i][1] > reportA[i+1][1]
            \/ /\ reportA[i][1] = reportA[i+1][1]
               /\ StrLT(reportA[i+1][2], reportA[i][2])

C4_Witness ==
    /\ stage = "reportedA"
    /\ \E i \in 1..Len(reportA)-1 : reportA[i][1] = reportA[i+1][1]

FirstSeen(x, s) == CHOOSE i \in 1..Len(s) : s[i] = x /\ \A j \in 1..i-1 : s[j] # x

(* C5: Driver B's report is by total count descending, equal counts in the *)
(* order in which their element was first seen in the input.               *)
C5_TiesFirstSeen ==
    ReportedB =>
        \A i \in 1..Len(reportB)-1 :
            \/ reportB[i][1] > reportB[i+1][1]
            \/ /\ reportB[i][1] = reportB[i+1][1]
               /\ FirstSeen(reportB[i][2], lines_in) < FirstSeen(reportB[i+1][2], lines_in)

C5_Witness ==
    /\ ReportedB
    /\ \E i \in 1..Len(reportB)-1 :
          /\ reportB[i][1] = reportB[i+1][1]
          /\ StrLT(reportB[i+1][2], reportB[i][2])

(***************************************************************************)
(* SpecReplace: line.replace(search_term, new_term) on bounded inputs.     *)
(***************************************************************************)
Alphabet == {97, 98}

InitReplace ==
    /\ r_line \in SeqsUpTo(Alphabet, MaxStr)
    /\ r_search \in SeqsUpTo(Alphabet, MaxSearch)
    /\ r_new \in {s_empty, s_b, s_ab}
    /\ r_out = << >>
    /\ r_pc = "pending"
    /\ CountIdle /\ PipeIdle

ApplyReplace ==
    /\ r_pc = "pending"
    /\ r_out' = Replace(r_line, r_search, r_new)
    /\ r_pc' = "yielded"
    /\ UNCHANGED <<r_line, r_search, r_new, countVars, pipeVars>>

NextReplace == ApplyReplace

SpecReplace == InitReplace /\ [][NextReplace]_vars

(* C8 as stated: with an empty search string the replacer is a no-op,      *)
(* whatever the replacement.                                               *)
C8_EmptySearchNoOp ==
    (r_pc = "yielded" /\ r_search = << >>) => r_out = r_line

(* C8 amended: the replacer always yields a string; with an empty search   *)
(* string the replacement is inserted before every character and at the    *)
(* end, so the line is unchanged exactly when the replacement is empty.    *)
C8_EmptySearchInserts ==
    r_pc = "yielded" =>
        /\ r_out \in Seq(Alphabet)
        /\ r_search = << >> =>
             /\ Len(r_out) = Len(r_line) + (Len(r_line) + 1) * Len(r_new)
             /\ \A i \in 1..Len(r_line) :
                    /\ r_out[i * (Len(r_new) + 1)] = r_line[i]
                    /\ SubSeq(r_out, (i-1) * (Len(r_new) + 1) + 1,
                              i * (Len(r_new) + 1) - 1) = r_new
             /\ SubSeq(r_out, Len(r_out) - Len(r_new) + 1, Len(r_out)) = r_new
             /\ (r_out = r_line <=> r_new = << >>)

C8_Witness ==
    /\ r_pc = "yielded" /\ r_search = << >> /\ r_new # << >> /\ r_line # << >>
    /\ r_out # r_line

(***************************************************************************)
(* Spec: the pipeline of lines 70-74 (and 81-85), one step at a time.      *)
(*                                                                         *)
(* fs is the sequence of files the wildcard expands to.  A file is its     *)
(* lines as file iteration returns them (terminator kept, only the last    *)
(* line may lack it) and how access to it fails: "open" (open() raises),   *)
(* "read" (reading past the listed lines raises) or "none".                *)
(* active names the frame that is running; signal is what the callee just  *)
(* handed back to it: a value (yield), "stop" (StopIteration) or "error".  *)
(***************************************************************************)
RawLines == {raw_import_os, raw_comment}

FileLines ==
    {l \in SeqsUpTo(RawLines, MaxLines) :
        \A i \in 1..Len(l)-1 : l[i][Len(l[i])] = NL}

Files ==
    {[lines |-> l, fail |-> f] : l \in FileLines, f \in {"none", "read"}}
        \cup {[lines |-> << >>, fail |-> "open"]}

Patterns == {s_re_import, s_re_plain, s_re_bad}

Init ==
    /\ fs \in SeqsUpTo(Files, MaxPaths)
    /\ pattern \in Patterns
    /\ driver_pc = "expand_wildcard"
    /\ lfp_pc = "none" /\ grep_pc = "none" /\ sar_pc = "none"
    /\ active = "driver" /\ signal = "none" /\ val = << >> /\ exc = NoExc
    /\ pathIdx = 0 /\ lineIdx = 0 /\ handles = {} /\ opened = << >>
    /\ lfp_out = << >> /\ lfp_req = 0 /\ collected = << >>
    /\ CountIdle /\ ReplIdle

lfpVars == <<lfp_pc, pathIdx, lineIdx, handles, opened, lfp_out>>

(* ---- the driver: lines 70-74 ---- *)

(* files = expand_wildcard(...): glob.iglob is lazy, nothing is read. *)
D_ExpandWildcard ==
    /\ driver_pc = "expand_wildcard"
    /\ driver_pc' = "lines_from_paths"
    /\ UNCHANGED <<fs, pattern, grep_pc, sar_pc, active, signal, val, exc,
                   lfpVars, lfp_req, collected, countVars, replVars>>

(* A plausible slip: a reader that opens its first file when it is built. *)
D_LinesFromPaths_eager ==
    /\ driver_pc = "lines_from_paths"
    /\ driver_pc' = "grep"
    /\ IF Len(fs) > 0 /\ fs[1].fail # "open"
       THEN /\ lfp_pc' = "suspended" /\ pathIdx' = 1 /\ handles' = {1}
            /\ opened' = <<1>>
       ELSE /\ lfp_pc' = "created" /\ UNCHANGED <<pathIdx, handles, opened>>
    /\ UNCHANGED <<fs, pattern, grep_pc, sar_pc, active, signal, val, exc,
                   lineIdx, lfp_out, lfp_req, collected, countVars, replVars>>

(* lines = lines_from_paths(files): a generator object, no body code runs. *)
D_LinesFromPaths ==
    /\ driver_pc = "lines_from_paths"
    /\ driver_pc' = "grep"
    /\ lfp_pc' = "created"
    /\ UNCHANGED <<fs, pattern, grep_pc, sar_pc, active, signal, val, exc,
                   pathIdx, lineIdx, handles, opened, lfp_out, lfp_req, collected,
                   countVars, replVars>>

(* lines = grep(lines, pattern): a generator object, no body code runs. *)
D_Grep ==
    /\ driver_pc = "grep"
    /\ driver_pc' = "search_and_replace"
    /\ grep_pc' = "created"
    /\ UNCHANGED <<fs, pattern, sar_pc, active, signal, val, exc,
                   lfpVars, lfp_req, collected, countVars, replVars>>

(* lines = search_and_replace(lines, 'import ', ''). *)
D_SearchAndReplace ==
    /\ driver_pc = "search_and_replace"
    /\ driver_pc' = "collect"
    /\ sar_pc' = "created"
    /\ UNCHANGED <<fs, pattern, grep_pc, active, signal, val, exc,
                   lfpVars, lfp_req, collected, countVars, replVars>>

(* sorted(lines) / Counter(lines) asks the pipeline for its next element. *)
D_Next ==
    /\ driver_pc = "collect" /\ active = "driver" /\ signal = "none"
    /\ active' = "sar"
    /\ UNCHANGED <<fs, pattern, driver_pc, grep_pc, sar_pc, signal, val, exc,
                   lfpVars, lfp_req, collected, countVars, replVars>>

D_Collect ==
    /\ driver_pc = "collect" /\ active = "driver" /\ signal = "value"
    /\ collected' = Append(collected, val)
    /\ signal' = "none"
    /\ UNCHANGED <<fs, pattern, driver_pc, grep_pc, sar_pc, active, val, exc,
                   lfpVars, lfp_req, countVars, replVars>>

D_Finish ==
    /\ driver_pc = "collect" /\ active = "driver" /\ signal = "stop"
    /\ driver_pc' = "done"
    /\ UNCHANGED <<fs, pattern, grep_pc, sar_pc, active, signal, val, exc,
                   lfpVars, lfp_req, collected, countVars, replVars>>

(* No try/except anywhere: the exception ends the script. *)
D_Fail ==
    /\ driver_pc = "collect" /\ active = "driver" /\ signal = "error"
    /\ driver_pc' = "failed"
    /\ UNCHANGED <<fs, pattern, grep_pc, sar_pc, active, signal, val, exc,
                   lfpVars, lfp_req, collected, countVars, replVars>>

(* A plausible slip: the file is opened without "with", so closing the    *)
(* generator leaves it open.                                               *)
Close_leak ==
    /\ driver_pc = "collect" /\ active = "driver" /\ signal = "none"
    /\ driver_pc' = "abandoned"
    /\ lfp_pc' = "done" /\ grep_pc' = "done" /\ sar_pc' = "done"
    /\ UNCHANGED <<fs, pattern, active, signal, val, exc, pathIdx, lineIdx,
                   handles, opened, lfp_out, lfp_req, collected, countVars, replVars>>

(***************************************************************************)
(* The consumer stops early and the generators are closed: GeneratorExit   *)
(* is raised at each suspended yield; in lines_from_paths it leaves the    *)
(* "with" block of line 36, which closes the file.                         *)
(***************************************************************************)
Close ==
    /\ driver_pc = "collect" /\ active = "driver" /\ signal = "none"
    /\ driver_pc' = "abandoned"
    /\ lfp_pc' = "done" /\ grep_pc' = "done" /\ sar_pc' = "done"
    /\ handles' = {}
    /\ UNCHANGED <<fs, pattern, active, signal, val, exc, pathIdx, lineIdx,
                   opened, lfp_out, lfp_req, collected, countVars, replVars>>

(* ---- search_and_replace: lines 52-55 ---- *)

S_Next ==
    /\ active = "sar" /\ sar_pc \in {"created", "suspended"} /\ signal = "none"
    /\ sar_pc' = "running"
    /\ active' = "grep"
    /\ UNCHANGED <<fs, pattern, driver_pc, grep_pc, signal, val, exc,
                   lfpVars, lfp_req, collected, countVars, replVars>>

S_Yield ==
    /\ active = "sar" /\ sar_pc = "running" /\ signal = "value"
    /\ val' = Replace(val, s_import_sp, s_empty)
    /\ sar_pc' = "suspended"
    /\ active' = "driver"
    /\ UNCHANGED <<fs, pattern, driver_pc, grep_pc, signal, exc,
                   lfpVars, lfp_req, collected, countVars, replVars>>

S_Return ==
    /\ active = "sar" /\ sar_pc = "running" /\ signal = "stop"
    /\ sar_pc' = "done"
    /\ active' = "driver"
    /\ UNCHANGED <<fs, pattern, driver_pc, grep_pc, signal, val, exc,
                   lfpVars, lfp_req, collected, countVars, replVars>>

S_Raise ==
    /\ active = "sar" /\ sar_pc = "running" /\ signal = "error"
    /\ sar_pc' = "done"
    /\ active' = "driver"
    /\ UNCHANGED <<fs, pattern, driver_pc, grep_pc, signal, val, exc,
                   lfpVars, lfp_req, collected, countVars, replVars>>

(* ---- grep: lines 41-49 ---- *)

(* A plausible slip: the pattern is never checked. *)
G_Compile_unchecked ==
    /\ active = "grep" /\ grep_pc = "created" /\ signal = "none"
    /\ grep_pc' = "running"
    /\ UNCHANGED <<fs, pattern, driver_pc, sar_pc, active, signal, val, exc,
                   lfpVars, lfp_req, collected, countVars, replVars>>

(* Line 46 runs when the generator is first advanced. *)
G_Compile ==
    /\ active = "grep" /\ grep_pc = "created" /\ signal = "none"
    /\ IF re_compile(pattern).ok
       THEN /\ grep_pc' = "running"
            /\ UNCHANGED <<active, signal, exc>>
       ELSE /\ grep_pc' = "done"
            /\ exc' = [kind |-> "PatternError", path |-> 0]
            /\ signal' = "error"
            /\ active' = "sar"
    /\ UNCHANGED <<fs, pattern, driver_pc, sar_pc, val,
                   lfpVars, lfp_req, collected, countVars, replVars>>

G_Next ==
    /\ active = "grep" /\ grep_pc \in {"running", "suspended"} /\ signal = "none"
    /\ grep_pc' = "running"
    /\ active' = "lfp"
    /\ lfp_req' = lfp_req + 1
    /\ UNCHANGED <<fs, pattern, driver_pc, sar_pc, signal, val, exc,
                   lfpVars, collected, countVars, replVars>>

G_Test ==
    /\ active = "grep" /\ grep_pc = "running" /\ signal = "value"
    /\ IF re_search(re_compile(pattern), val)
       THEN /\ grep_pc' = "suspended"
            /\ active' = "sar"
            /\ UNCHANGED signal
       ELSE /\ signal' = "none"
            /\ UNCHANGED <<grep_pc, active>>
    /\ UNCHANGED <<fs, pattern, driver_pc, sar_pc, val, exc,
                   lfpVars, lfp_req, collected, countVars, replVars>>

G_Return ==
    /\ active = "grep" /\ grep_pc = "running" /\ signal = "stop"
    /\ grep_pc' = "done"
    /\ active' = "sar"
    /\ UNCHANGED <<fs, pattern, driver_pc, sar_pc, signal, val, exc,
                   lfpVars, lfp_req, collected, countVars, replVars>>

(* A plausible slip: the filter swallows an error of its input. *)
G_Raise_swallow ==
    /\ active = "grep" /\ grep_pc = "running" /\ signal = "error"
    /\ grep_pc' = "done"
    /\ active' = "sar"
    /\ signal' = "stop"
    /\ UNCHANGED <<fs, pattern, driver_pc, sar_pc, val, exc,
                   lfpVars, lfp_req, collected, countVars, replVars>>

G_Raise ==
    /\ active = "grep" /\ grep_pc = "running" /\ signal = "error"
    /\ grep_pc' = "done"
    /\ active' = "sar"
    /\ UNCHANGED <<fs, pattern, driver_pc, sar_pc, signal, val, exc,
                   lfpVars, lfp_req, collected, countVars, replVars>>

(* ---- lines_from_paths: lines 31-38 ---- *)

(* Line 35: the next path, or the end of the generator. *)
L_ForPath ==
    /\ active = "lfp" /\ lfp_pc \in {"created", "for_path"}
    /\ IF pathIdx < Len(fs)
       THEN /\ pathIdx' = pathIdx + 1
            /\ lfp_pc' = "open"
            /\ UNCHANGED <<active, signal>>
       ELSE /\ lfp_pc' = "done"
            /\ signal' = "stop"
            /\ active' = "grep"
            /\ UNCHANGED pathIdx
    /\ UNCHANGED <<fs, pattern, driver_pc, grep_pc, sar_pc, val, exc,
                   lineIdx, handles, opened, lfp_out, lfp_req, collected,
                   countVars, replVars>>

(* Line 36: open(path); a failure leaves the generator with the error. *)
L_Open ==
    /\ active = "lfp" /\ lfp_pc = "open"
    /\ IF fs[pathIdx].fail = "open"
       THEN /\ exc' = [kind |-> "FileAccessError", path |-> pathIdx]
            /\ lfp_pc' = "done"
            /\ signal' = "error"
            /\ active' = "grep"
            /\ UNCHANGED <<handles, opened, lineIdx>>
       ELSE /\ handles' = handles \cup {pathIdx}
            /\ opened' = Append(opened, pathIdx)
            /\ lineIdx' = 0
            /\ lfp_pc' = "for_line"
            /\ UNCHANGED <<exc, signal, active>>
    /\ UNCHANGED <<fs, pattern, driver_pc, grep_pc, sar_pc, val,
                   pathIdx, lfp_out, lfp_req, collected, countVars, replVars>>

(* Lines 37-38: the next line is yielded stripped; at the end of the file, *)
(* or on a read error, control leaves the "with" block.                    *)
L_ForLine ==
    /\ active = "lfp" /\ lfp_pc \in {"for_line", "suspended"}
    /\ IF lineIdx < Len(fs[pathIdx].lines)
       THEN /\ lineIdx' = lineIdx + 1
            /\ val' = rstrip_nl(fs[pathIdx].lines[lineIdx + 1])
            /\ lfp_out' = Append(lfp_out, rstrip_nl(fs[pathIdx].lines[lineIdx + 1]))
            /\ lfp_pc' = "suspended"
            /\ signal' = "value"
            /\ active' = "grep"
            /\ UNCHANGED exc
       ELSE /\ lfp_pc' = "exit_with"
            /\ exc' = IF fs[pathIdx].fail = "read"
                      THEN [kind |-> "FileAccessError", path |-> pathIdx]
                      ELSE exc
            /\ UNCHANGED <<lineIdx, val, lfp_out, signal, active>>
    /\ UNCHANGED <<fs, pattern, driver_pc, grep_pc, sar_pc,
                   pathIdx, handles, opened, lfp_req, collected, countVars, replVars>>

(* The "with" block's exit closes the file, then the error goes on up or   *)
(* the loop of line 35 continues.                                          *)
L_ExitWith ==
    /\ active = "lfp" /\ lfp_pc = "exit_with"
    /\ handles' = handles \ {pathIdx}
    /\ IF exc.kind # "none"
       THEN /\ lfp_pc' = "done"
            /\ signal' = "error"
            /\ active' = "grep"
       ELSE /\ lfp_pc' = "for_path"
            /\ UNCHANGED <<signal, active>>
    /\ UNCHANGED <<fs, pattern, driver_pc, grep_pc, sar_pc, val, exc,
                   pathIdx, lineIdx, opened, lfp_out, lfp_req, collected,
                   countVars, replVars>>

Next ==
    \/ D_ExpandWildcard \/ D_LinesFromPaths \/ D_Grep \/ D_SearchAndReplace
    \/ D_Next \/ D_Collect \/ D_Finish \/ D_Fail \/ Close
    \/ S_Next \/ S_Yield \/ S_Return \/ S_Raise
    \/ G_Compile \/ G_Next \/ G_Test \/ G_Return \/ G_Raise
    \/ L_ForPath \/ L_Open \/ L_ForLine \/ L_ExitWith

Spec == Init /\ [][Next]_vars

(* The stripped lines of files 1..k, the first n lines only of file k. *)
LinesThrough(k, n) ==
    LET F[j \in 0..k] ==
            IF j = 0 THEN << >>
            ELSE F[j-1] \o [i \in 1..(IF j = k THEN n ELSE Len(fs[j].lines)) |->
                               rstrip_nl(fs[j].lines[i])]
    IN  F[k]

(* C6: lines_from_paths holds at most one open file at any time, and none  *)
(* once it has ended: exhausted, failed, or closed by a consumer that      *)
(* stopped reading early.                                                  *)
C6_HandlesReleased ==
    /\ Cardinality(handles) <= 1
    /\ lfp_pc \in {"none", "created", "done"} => handles = {}
    /\ driver_pc \in {"done", "failed", "abandoned"} => handles = {}

C6_Witness ==
    /\ driver_pc = "abandoned" /\ handles = {}
    /\ pathIdx >= 1 /\ Len(opened) = pathIdx
    /\ lineIdx >= 1 /\ lineIdx < Len(fs[pathIdx].lines)

(* C7: lines_from_paths is pull-driven: nothing is opened before the first *)
(* request, at most one line is produced per request, paths are opened in  *)
(* the order received, and a path is opened only after every line of the   *)
(* paths before it has been yielded and their files closed.                *)
C7_LazyPullDriven ==
    /\ lfp_req = 0 => (opened = << >> /\ handles = {} /\ lfp_out = << >>)
    /\ Len(lfp_out) <= lfp_req
    /\ \A i \in 1..Len(opened) : opened[i] = i
    /\ \A i \in 1..Len(opened)-1 : opened[i] \notin handles
    /\ handles \subseteq {pathIdx}
    /\ Len(opened) >= 1 => lfp_out = LinesThrough(Len(opened), lineIdx)

C7_Witness ==
    /\ Len(opened) = 2 /\ handles = {2} /\ lineIdx = 1
    /\ Len(fs[1].lines) = MaxLines /\ Len(lfp_out) = MaxLines + 1

(* C9 as stated: an invalid pattern fails when grep(strings, pattern) is   *)
(* called, before the resulting sequence is advanced.                      *)
C9_FailsAtConstruction ==
    (grep_pc # "none" /\ ~re_compile(pattern).ok) => exc.kind = "PatternError"

(* C9 amended: with an invalid pattern the call grep(strings, pattern)     *)
(* returns without error; the pattern error is raised when the resulting   *)
(* sequence is first advanced, before any element is requested from the    *)
(* input sequence.                                                         *)
C9_FailsAtFirstAdvance ==
    ~re_compile(pattern).ok =>
        /\ lfp_req = 0 /\ opened = << >> /\ lfp_out = << >> /\ collected = << >>
        /\ grep_pc = "created" => exc = NoExc
        /\ grep_pc \notin {"running", "suspended"}
        /\ (grep_pc = "done" /\ driver_pc # "abandoned") =>
               exc = [kind |-> "PatternError", path |-> 0]
        /\ driver_pc # "done"

C9_Witness ==
    /\ ~re_compile(pattern).ok /\ driver_pc = "failed"
    /\ exc.kind = "PatternError" /\ Len(fs) > 0 /\ lfp_pc = "created"

(* C10: a path that cannot be opened or read fails lazily, after the lines *)
(* of the earlier paths were yielded; the error travels unchanged through  *)
(* grep and search_and_replace to the driver, which fails; no later path   *)
(* is opened, no further line is yielded, no file is left open.            *)
C10_ErrorPropagates ==
    /\ driver_pc = "done" => exc = NoExc
    /\ exc.kind = "FileAccessError" =>
        LET k == exc.path IN
        /\ k = pathIdx
        /\ fs[k].fail \in {"open", "read"}
        /\ \A j \in 1..k-1 : fs[j].fail = "none"
        /\ lfp_out = LinesThrough(k, Len(fs[k].lines))
        /\ Len(opened) = (IF fs[k].fail = "open" THEN k - 1 ELSE k)
        /\ lfp_pc \in {"exit_with", "done"}
        /\ lfp_pc = "done" => (handles = {} /\ signal = "error")
        /\ active = "sar" => grep_pc = "done"
        /\ active = "driver" => (grep_pc = "done" /\ sar_pc = "done")
        /\ driver_pc \in {"collect", "failed"}
        /\ driver_pc = "failed" => active = "driver"

C10_Witness ==
    /\ driver_pc = "failed" /\ exc = [kind |-> "FileAccessError", path |-> 2]
    /\ lfp_out # << >> /\ collected # << >> /\ Len(fs) = 2 /\ handles = {}

====
